---- MODULE Spec2Model ----
(***************************************************************************)
(* The pNodes table (PNodesTable): its view state, the filter / sort /     *)
(* deduplicate / paginate pipeline it recomputes on every render, and the  *)
(* handlers of its controls.                                               *)
(*                                                                         *)
(* Conventions of the model                                                *)
(*  - a JavaScript string is a sequence of one-character strings;          *)
(*  - an optional field is <<>> when absent and <<v>> when present;        *)
(*  - a JavaScript number that may be NaN is <<>> (NaN) or <<n>>;          *)
(*  - a ratio used/total is kept exact as the pair <<used, total>>.        *)
(***************************************************************************)
EXTENDS Integers, Sequences, FiniteSets, TLC

\* The table (PNodesTable).
VARIABLES pnodes, search, statusFilter, tierFilter, sortField, sortDirection,
          currentPage, engine

\* The markers layer of the map (MarkersLayer) and the Leaflet map it draws
\* on; layerNodes is the `nodes` prop of the layer.
VARIABLES mounted, layerNodes, enableClustering, onNodeClick, clusterGroupRef,
          markersRef, mapLayers, effectRuns, mapSize, timers, popup,
          selectPending

\* The map panel (PNodesMap): its feed, its filters and the clock its marker
\* icons are built at.
VARIABLES mapNodes, showOnlineOnly, healthTierFilter, versionFilter, now

\* One call of ApiClient.request: where it stands, its timer and its outcome.
VARIABLES phase, timeoutMs, elapsed, timeoutId, aborted, response, outcome,
          settled

\* One MetricCard: its props, its state and its timers.
VARIABLES cardMounted, cardValue, displayValue, isVisible, visibleTimer,
          intervals, effectInterval, renders

tableVars == <<pnodes, search, statusFilter, tierFilter, sortField,
               sortDirection, currentPage, engine>>

mapVars == <<mounted, layerNodes, enableClustering, onNodeClick, clusterGroupRef,
             markersRef, mapLayers, effectRuns, mapSize, timers, popup,
             selectPending>>

panelVars == <<mapNodes, showOnlineOnly, healthTierFilter, versionFilter, now>>

apiVars ==
  <<phase, timeoutMs, elapsed, timeoutId, aborted, response, outcome, settled>>

cardVars ==
  <<cardMounted, cardValue, displayValue, isVisible, visibleTimer, intervals,
    effectInterval, renders>>

vars == <<tableVars, mapVars, panelVars, apiVars, cardVars>>

\* What an action of the table, of the markers layer, of the map panel, of
\* the API client, of the metric card does not touch.
outsideTable == <<mapVars, panelVars, apiVars, cardVars>>

outsideMap == <<tableVars, panelVars, apiVars, cardVars>>

outsidePanel == <<tableVars, mapVars, apiVars, cardVars>>

outsideApi == <<tableVars, mapVars, panelVars, cardVars>>

outsideCard == <<tableVars, mapVars, panelVars, apiVars>>

\* Length of the longest node list a refresh delivers.
LongLen == 25

itemsPerPage == 20

SortFields == {"pubkey", "storageUsed", "lastSeen", "status", "healthScore",
               "storageUtilization", "tier", "version", "region", "ramUsed",
               "ramUtilization"}

SortDirections == {"asc", "desc"}

StatusFilters == {"all", "online", "offline"}

TierFilters == {"all", "Excellent", "Good", "Poor"}

\* Array.prototype.sort is required to be stable, and its result is
\* implementation-defined when the comparator is not a consistent ordering.
\* Two conforming stable sorts stand for the builds the page can run on.
Engines == {"binaryInsertion", "linearInsertion"}

(***************************************************************************)
(* Strings                                                                 *)
(***************************************************************************)
\* Collation rank of a character's base letter.
Alphabet == <<" ", "0", "1", "2", "3", "4", "5", "6", "7", "8", "9",
              "a", "b", "c", "e", "s", "u">>

toLowerCaseChar(c) ==
  CASE c = "A" -> "a"
    [] c = "B" -> "b"
    [] c = "C" -> "c"
    [] c = "E" -> "e"
    [] c = "S" -> "s"
    [] c = "U" -> "u"
    [] OTHER -> c

toLowerCase(s) == [i \in 1..Len(s) |-> toLowerCaseChar(s[i])]

isUpperCase(c) == toLowerCaseChar(c) # c

RECURSIVE trimStart(_)
trimStart(s) ==
  IF s # <<>> /\ Head(s) = " " THEN trimStart(Tail(s)) ELSE s

RECURSIVE trimEnd(_)
trimEnd(s) ==
  IF s # <<>> /\ s[Len(s)] = " " THEN trimEnd(SubSeq(s, 1, Len(s) - 1)) ELSE s

trim(s) == trimEnd(trimStart(s))

includes(s, q) ==
  \E i \in 0..(Len(s) - Len(q)) : SubSeq(s, i + 1, i + Len(q)) = q

\* x || '' for an optional string field.
orEmpty(f) == IF f = <<>> THEN <<>> ELSE f[1]

charRank(c) == CHOOSE i \in 1..Len(Alphabet) : Alphabet[i] = toLowerCaseChar(c)

\* Lexicographic comparison of the base letters (the primary level).
RECURSIVE primaryCompare(_, _)
primaryCompare(s, t) ==
  IF s = <<>> /\ t = <<>> THEN 0
  ELSE IF s = <<>> THEN -1
  ELSE IF t = <<>> THEN 1
  ELSE IF charRank(Head(s)) < charRank(Head(t)) THEN -1
  ELSE IF charRank(Head(s)) > charRank(Head(t)) THEN 1
  ELSE primaryCompare(Tail(s), Tail(t))

\* The case level: at the first position where the case differs, lower first.
RECURSIVE caseCompare(_, _)
caseCompare(s, t) ==
  IF s = <<>> \/ t = <<>> THEN 0
  ELSE IF Head(s) = Head(t) THEN caseCompare(Tail(s), Tail(t))
  ELSE IF isUpperCase(Head(t)) THEN -1
  ELSE 1

\* String.prototype.localeCompare: base letters first, case as the tie-break.
localeCompare(s, t) ==
  LET p == primaryCompare(s, t)
  IN IF p # 0 THEN p ELSE caseCompare(s, t)

(***************************************************************************)
(* Numbers                                                                 *)
(***************************************************************************)
NaN == <<>>

isNaN(x) == x = <<>>

\* a - b with an unparsable time read as 0, the epoch.
minusUnparsableAsEpoch(a, b) ==
  <<(IF isNaN(a) THEN 0 ELSE a[1]) - (IF isNaN(b) THEN 0 ELSE b[1])>>

\* a - b on numbers that may be NaN.
minus(a, b) == IF isNaN(a) \/ isNaN(b) THEN NaN ELSE <<a[1] - b[1]>>

\* -x
negate(x) == IF isNaN(x) THEN NaN ELSE <<0 - x[1]>>

\* a - b on exact ratios <<n, d>>, d > 0: a number of the same sign.
ratioMinus(a, b) == <<a[1] * b[2] - b[1] * a[2]>>

ratioZero == <<0, 1>>

(***************************************************************************)
(* Node records (PNode) and the node lists a refresh can deliver           *)
(***************************************************************************)
Node(pubkey, status, healthScore, tier, storageUsed, storageTotal, storageUtilization, ramUsed, ramTotal, version, region, ip, lastSeen) ==
  [pubkey |-> pubkey, status |-> status, healthScore |-> healthScore,
   tier |-> tier, storageUsed |-> storageUsed, storageTotal |-> storageTotal,
   storageUtilization |-> storageUtilization, ramUsed |-> ramUsed,
   ramTotal |-> ramTotal, version |-> version, region |-> region, ip |-> ip,
   lastSeen |-> lastSeen]

\* lastSeen holds the time value `new Date(lastSeen).getTime()` yields:
\* NaN for a value that cannot be parsed as a date.
nodeA1 ==
  Node(<<"a", "b">>, "online", <<40>>, <<"Poor">>, 1, 4, <<25>>, <<2>>, <<8>>,
       <<<<"1">>>>, <<<<"u", "s">>>>, <<<<"1", "0">>>>, <<5>>)

\* Shares its pubkey with nodeA1.
nodeA2 ==
  Node(<<"a", "b">>, "online", <<90>>, <<"Excellent">>, 3, 4, <<>>, <<6>>,
       <<8>>, <<<<"2">>>>, <<<<"E", "U">>>>, <<>>, <<1>>)

\* storageTotal = 0, no RAM data, no version, lastSeen unparsable.
nodeB ==
  Node(<<"A", "c">>, "offline", <<90>>, <<"Excellent">>, 2, 0, <<>>, <<>>,
       <<>>, <<>>, <<<<"e", "u">>>>, <<<<"2">>>>, NaN)

\* No healthScore, no tier, no region, ramTotal = 0.
nodeC ==
  Node(<<"b", "a">>, "online", <<>>, <<>>, 1, 2, <<50>>, <<1>>, <<0>>,
       <<<<"1">>>>, <<>>, <<<<"1", "2">>>>, <<2>>)

\* healthScore exactly 0.
nodeD ==
  Node(<<"c">>, "offline", <<0>>, <<"Good">>, 0, 4, <<0>>, <<4>>, <<8>>,
       <<<<"2">>>>, <<<<"u", "s">>>>, <<<<"1", "0">>>>, <<1>>)

digit(d) == Alphabet[d + 2]

\* The i-th record of a long feed, i < 100: every record has its own pubkey.
LongNode(i) ==
     Node(<<digit(i \div 10), digit(i % 10)>>,
          IF i % 3 = 0 THEN "offline" ELSE "online",
          IF i % 8 = 0 THEN <<>> ELSE <<(i * 37) % 101>>,
          CASE i % 4 = 0 -> <<>>
            [] i % 4 = 1 -> <<"Excellent">>
            [] i % 4 = 2 -> <<"Good">>
            [] OTHER -> <<"Poor">>,
          i % 7, i % 5,
          IF i % 2 = 0 THEN <<>> ELSE <<(i * 11) % 100>>,
          IF i % 6 = 0 THEN <<>> ELSE <<i % 9>>,
          IF i % 6 = 0 THEN <<>> ELSE <<(i % 4) * 4>>,
          IF i % 5 = 0 THEN <<>> ELSE <<<<digit(i % 3)>>>>,
          IF i % 7 = 0 THEN <<>> ELSE <<<<IF i % 2 = 0 THEN "e" ELSE "u",
                                         IF i % 2 = 0 THEN "u" ELSE "s">>>>,
          IF i % 9 = 0 THEN <<>> ELSE <<<<digit(i % 10), digit(i % 4)>>>>,
          IF i % 11 = 0 THEN NaN ELSE <<(i * 13) % 50>>)

LongNodes(n) == [i \in 1..n |-> LongNode(i)]

\* The node lists the data hook can hand to the table.
NodeLists ==
  {<<>>,
   <<nodeA1, nodeA2, nodeB, nodeC>>,
   <<nodeC, nodeB, nodeA2, nodeA1, nodeD>>,
   <<nodeD, nodeA2, nodeC, nodeB>>,
   <<nodeB, nodeD, nodeA1>>,
   LongNodes(LongLen)}

\* What the user can type into the search box.
SearchTexts ==
  {<<>>, <<" ", " ">>, <<" ", "A", " ">>, <<"E", "u">>, <<"1">>}

(***************************************************************************)
(* filteredAndSorted: the filters                                          *)
(***************************************************************************)
\* The callback of the search filter without the ip field.
searchMatchesNoIp(node, searchLower) ==
  LET pubkey == toLowerCase(orEmpty(<<node.pubkey>>))
      region == toLowerCase(orEmpty(node.region))
      version == toLowerCase(orEmpty(node.version))
  IN \/ includes(pubkey, searchLower)
     \/ includes(region, searchLower)
     \/ includes(version, searchLower)

\* The callback of the search filter.
searchMatches(node, searchLower) ==
  LET pubkey == toLowerCase(orEmpty(<<node.pubkey>>))
      region == toLowerCase(orEmpty(node.region))
      version == toLowerCase(orEmpty(node.version))
      ip == toLowerCase(orEmpty(node.ip))
  IN \/ includes(pubkey, searchLower)
     \/ includes(region, searchLower)
     \/ includes(version, searchLower)
     \/ includes(ip, searchLower)

\* if (search.trim()) result = result.filter(...)
searchStep(result, srch) ==
  IF trim(srch) # <<>>
  THEN LET searchLower == trim(toLowerCase(srch))
           keep(node) == searchMatches(node, searchLower)
       IN SelectSeq(result, keep)
  ELSE result

\* The status filter guarded by `if (statusFilter)`: 'all' filters too.
statusStepAllFilters(result, status) ==
  LET keep(node) == node.status = status
  IN SelectSeq(result, keep)

\* The status filter written as a forward loop that splices the rejected
\* records out of the array it walks, so the record after a removed one is
\* skipped.
RECURSIVE spliceWalk(_, _, _)
spliceWalk(result, i, status) ==
  IF i > Len(result)
  THEN result
  ELSE IF result[i].status = status
       THEN spliceWalk(result, i + 1, status)
       ELSE spliceWalk(SubSeq(result, 1, i - 1)
                         \o SubSeq(result, i + 1, Len(result)),
                       i + 1, status)

statusStepSplice(result, status) ==
  IF status # "all" THEN spliceWalk(result, 1, status) ELSE result

\* if (statusFilter !== 'all') result = result.filter(...)
statusStep(result, status) ==
  IF status # "all"
  THEN LET keep(node) == node.status = status
       IN SelectSeq(result, keep)
  ELSE result

\* The tier filter with `(node.tier || tierFilter) === tierFilter`: a record
\* without a tier passes every tier filter.
tierStepAbsentPasses(result, tier) ==
  IF tier # "all"
  THEN LET keep(node) == node.tier = <<>> \/ node.tier = <<tier>>
       IN SelectSeq(result, keep)
  ELSE result

\* if (tierFilter !== 'all') result = result.filter(...)
tierStep(result, tier) ==
  IF tier # "all"
  THEN LET keep(node) == node.tier = <<tier>>
       IN SelectSeq(result, keep)
  ELSE result

\* The three filters in the order the code applies them.
filterNodes(nodes, srch, status, tier) ==
  tierStep(statusStep(searchStep(nodes, srch), status), tier)


(***************************************************************************)
(* nodeRamData and the comparator of result.sort                           *)
(***************************************************************************)
hasRam(node) == node.ramUsed # <<>> /\ node.ramTotal # <<>>

\* The Map built by pnodes.forEach: a later record of the same pubkey
\* overwrites the entry of an earlier one.
nodeRamDataOf(nodes) ==
  LET withRam == {i \in 1..Len(nodes) : hasRam(nodes[i])}
      keys == {nodes[i].pubkey : i \in withRam}
      lastSet(k) ==
        CHOOSE i \in withRam :
          /\ nodes[i].pubkey = k
          /\ \A j \in withRam : nodes[j].pubkey = k => j <= i
  IN [k \in keys |-> [used |-> nodes[lastSet(k)].ramUsed[1],
                      total |-> nodes[lastSet(k)].ramTotal[1]]]

\* The storageUsed key taken as the absolute number of bytes.
storageRatioAbsoluteBytes(node) == <<node.storageUsed, 1>>

\* a.storageTotal > 0 ? (a.storageUsed / a.storageTotal) : 0
storageRatio(node) ==
  IF node.storageTotal > 0
  THEN <<node.storageUsed, node.storageTotal>>
  ELSE ratioZero

\* a.storageUtilization ?? (a.storageTotal > 0 ? ratio * 100 : 0)
storageUtilizationKey(node) ==
  IF node.storageUtilization # <<>>
  THEN <<node.storageUtilization[1], 1>>
  ELSE IF node.storageTotal > 0
       THEN <<node.storageUsed * 100, node.storageTotal>>
       ELSE ratioZero

\* statusOrder[a.status] ?? 2
statusOrder(status) ==
  CASE status = "online" -> 0
    [] status = "offline" -> 1
    [] OTHER -> 2

\* tierOrder[a.tier || ''] ?? 3
tierOrder(tier) ==
  CASE tier = <<"Excellent">> -> 0
    [] tier = <<"Good">> -> 1
    [] tier = <<"Poor">> -> 2
    [] OTHER -> 3

\* a.healthScore || 0
healthOrZero(node) ==
  IF node.healthScore = <<>> THEN 0 ELSE node.healthScore[1]

\* nodeRamData.get(a.pubkey)?.used ?? 0
ramUsedKey(node, ramData) ==
  IF node.pubkey \in DOMAIN ramData THEN ramData[node.pubkey].used ELSE 0

\* aRam && aRam.total > 0 ? (aRam.used / aRam.total) * 100 : 0
ramUtilizationKey(node, ramData) ==
  IF node.pubkey \in DOMAIN ramData /\ ramData[node.pubkey].total > 0
  THEN <<ramData[node.pubkey].used * 100, ramData[node.pubkey].total>>
  ELSE ratioZero

\* The switch of the comparator: `comparison` before the direction is applied.
comparison(a, b, field, ramData) ==
  CASE field = "storageUsed" -> ratioMinus(storageRatio(a), storageRatio(b))
    [] field = "lastSeen" -> minus(a.lastSeen, b.lastSeen)
    [] field = "status" -> <<statusOrder(a.status) - statusOrder(b.status)>>
    [] field = "healthScore" -> <<healthOrZero(a) - healthOrZero(b)>>
    [] field = "storageUtilization" ->
         ratioMinus(storageUtilizationKey(a), storageUtilizationKey(b))
    [] field = "pubkey" ->
         <<localeCompare(orEmpty(<<a.pubkey>>), orEmpty(<<b.pubkey>>))>>
    [] field = "tier" -> <<tierOrder(a.tier) - tierOrder(b.tier)>>
    [] field = "version" ->
         <<localeCompare(orEmpty(a.version), orEmpty(b.version))>>
    [] field = "region" ->
         <<localeCompare(orEmpty(a.region), orEmpty(b.region))>>
    [] field = "ramUsed" ->
         <<ramUsedKey(a, ramData) - ramUsedKey(b, ramData)>>
    [] field = "ramUtilization" ->
         ratioMinus(ramUtilizationKey(a, ramData), ramUtilizationKey(b, ramData))
    [] OTHER -> <<0>>

\* return sortDirection === 'asc' ? comparison : -comparison
comparator(a, b, field, direction, ramData) ==
  IF direction = "asc"
  THEN comparison(a, b, field, ramData)
  ELSE negate(comparison(a, b, field, ramData))

(***************************************************************************)
(* Array.prototype.sort                                                    *)
(***************************************************************************)
\* SortCompare: a comparator result of NaN counts as +0.
sortCompare(a, b, field, direction, ramData) ==
  LET v == comparator(a, b, field, direction, ramData)
  IN IF isNaN(v) THEN 0 ELSE v[1]

\* seq with x inserted after its first k elements.
insertAt(seq, k, x) ==
  SubSeq(seq, 1, k) \o <<x>> \o SubSeq(seq, k + 1, Len(seq))

\* Binary search of the insertion point in sorted[left+1 .. right].
RECURSIVE binarySearch(_, _, _, _, _, _, _)
binarySearch(sorted, pivot, left, right, field, direction, ramData) ==
  IF left < right
  THEN LET mid == left + ((right - left) \div 2)
       IN IF sortCompare(pivot, sorted[mid + 1], field, direction, ramData) < 0
          THEN binarySearch(sorted, pivot, left, mid, field, direction, ramData)
          ELSE binarySearch(sorted, pivot, mid + 1, right, field, direction,
                            ramData)
  ELSE left

\* Linear search of the insertion point from the right end.
RECURSIVE linearSearch(_, _, _, _, _, _)
linearSearch(sorted, pivot, right, field, direction, ramData) ==
  IF right > 0
     /\ sortCompare(pivot, sorted[right], field, direction, ramData) < 0
  THEN linearSearch(sorted, pivot, right - 1, field, direction, ramData)
  ELSE right

\* Insertion sort: the elements of arr are inserted, one by one and in
\* order, into the sorted prefix.
RECURSIVE insertionSort(_, _, _, _, _, _)
insertionSort(arr, sorted, field, direction, ramData, eng) ==
  IF Len(sorted) = Len(arr)
  THEN sorted
  ELSE LET n == Len(sorted)
           pivot == arr[n + 1]
           at == IF eng = "binaryInsertion"
                 THEN binarySearch(sorted, pivot, 0, n, field, direction,
                                   ramData)
                 ELSE linearSearch(sorted, pivot, n, field, direction, ramData)
       IN insertionSort(arr, insertAt(sorted, at, pivot), field, direction,
                        ramData, eng)

\* result.sort((a, b) => ...)
sortNodes(result, field, direction, ramData, eng) ==
  insertionSort(result, <<>>, field, direction, ramData, eng)

(***************************************************************************)
(* Deduplication and the whole of filteredAndSorted                        *)
(***************************************************************************)
\* result.filter(node => seen.has(node.pubkey) ? false : (seen.add(...), true))
\* `seen` holds the pubkeys of the records kept so far.
RECURSIVE dedupeFrom(_, _, _)
dedupeFrom(result, i, out) ==
  IF i > Len(result)
  THEN out
  ELSE LET seen == {out[k].pubkey : k \in 1..Len(out)}
       IN IF result[i].pubkey \in seen
          THEN dedupeFrom(result, i + 1, out)
          ELSE dedupeFrom(result, i + 1, Append(out, result[i]))

\* A deduplication whose `seen` set is never filled: every record is kept.
deduplicateSeenNeverFilled(result) == result

deduplicate(result) == dedupeFrom(result, 1, <<>>)

\* The useMemo body with the deduplication placed before the sort.
filteredAndSortedDedupeFirst(nodes, srch, status, tier, field, direction, eng) ==
  sortNodes(deduplicate(filterNodes(nodes, srch, status, tier)), field,
            direction, nodeRamDataOf(nodes), eng)

\* `let result = pnodes`: result is the source array itself.
resultIsPnodes == FALSE

\* `let result = [...pnodes]`: result is a fresh copy of the source array.
resultIsCopy == TRUE

\* The array the `pnodes` prop refers to after a run of the useMemo body:
\* every filter that runs returns a new array, and result.sort sorts the
\* array `result` refers to in place.
pnodesAfterMemo(nodes, srch, status, tier, field, direction, eng) ==
  LET filterRan == trim(srch) # <<>> \/ status # "all" \/ tier # "all"
  IN IF ~resultIsCopy /\ ~filterRan
     THEN sortNodes(nodes, field, direction, nodeRamDataOf(nodes), eng)
     ELSE nodes

\* The useMemo body: filter, sort, deduplicate.
filteredAndSortedOf(nodes, srch, status, tier, field, direction, eng) ==
  deduplicate(sortNodes(filterNodes(nodes, srch, status, tier), field,
                        direction, nodeRamDataOf(nodes), eng))

(***************************************************************************)
(* Pagination                                                              *)
(***************************************************************************)
\* Math.floor in the place of Math.ceil.
totalPagesFloor(length) == length \div itemsPerPage

\* Math.ceil(length / itemsPerPage)
totalPagesOf(length) == (length + itemsPerPage - 1) \div itemsPerPage

\* Array.prototype.slice(start, end) for 0 <= start.
slice(seq, start, end) ==
  LET hi == IF end < Len(seq) THEN end ELSE Len(seq)
  IN IF start < hi THEN [i \in 1..(hi - start) |-> seq[start + i]] ELSE <<>>

\* startIndex computed from a 0-based page number.
startIndexZeroBased(page) == page * itemsPerPage

startIndexOf(page) == (page - 1) * itemsPerPage

endIndexOf(page) == startIndexOf(page) + itemsPerPage

\* A slice that clamps the page to the last one instead of running past the
\* end of the list.
paginatedNodesClamped(list, page) ==
  LET last == totalPagesOf(Len(list))
      shown == IF page > last /\ last > 0 THEN last ELSE page
  IN slice(list, startIndexOf(shown), endIndexOf(shown))

paginatedNodesOf(list, page) ==
  slice(list, startIndexOf(page), endIndexOf(page))

(***************************************************************************)
(* The component: derived values of a render                               *)
(***************************************************************************)
nodeRamData == nodeRamDataOf(pnodes)

filteredAndSorted ==
  filteredAndSortedOf(pnodes, search, statusFilter, tierFilter, sortField,
                      sortDirection, engine)

\* `result` as the filters leave it, before the sort.
filtered == filterNodes(pnodes, search, statusFilter, tierFilter)

\* `result` after result.sort, before the deduplication.
sorted == sortNodes(filtered, sortField, sortDirection, nodeRamData, engine)

totalPages == totalPagesOf(Len(filteredAndSorted))

paginatedNodes == paginatedNodesOf(filteredAndSorted, currentPage)

(***************************************************************************)
(* The component: what a render displays                                   *)
(***************************************************************************)
\* Array.prototype.findIndex(n => n.pubkey === pubkey): 0-based, -1 if none.
findIndex(list, pubkey) ==
  LET hits == {i \in 1..Len(list) : list[i].pubkey = pubkey}
  IN IF hits = {}
     THEN -1
     ELSE (CHOOSE i \in hits : \A j \in hits : i <= j) - 1

\* The rank cell without the `+ 1`.
globalRankZeroBased(list, node) == findIndex(list, node.pubkey)

\* The rank cell of a row: #{globalRank}.
globalRank(list, node) == findIndex(list, node.pubkey) + 1

\* The decimal digits of a natural number.
RECURSIVE digits(_)
digits(n) ==
  IF n < 10 THEN <<digit(n)>> ELSE digits(n \div 10) \o <<digit(n % 10)>>

\* Number.prototype.toFixed(1) of a whole number.
toFixed1(n) == digits(n) \o <<".", "0">>

\* node.healthScore ? node.healthScore.toFixed(1) : 'N/A'
\* undefined and 0 are both falsy.
healthScoreCell(node) ==
  IF node.healthScore # <<>> /\ node.healthScore[1] # 0
  THEN toFixed1(node.healthScore[1])
  ELSE <<"N", "/", "A">>

\* The "No nodes found matching your criteria" message.
emptyStateShown == Len(filteredAndSorted) = 0

(***************************************************************************)
(* The component: initial state and event handlers                         *)
(***************************************************************************)
\* No request has been made.
ApiIdle ==
  /\ phase = "idle"
  /\ timeoutMs = 30000
  /\ elapsed = 0
  /\ timeoutId = FALSE
  /\ aborted = FALSE
  /\ response = <<>>
  /\ outcome = <<>>
  /\ settled = 0

\* No metric card is mounted.
CardAbsent ==
  /\ cardMounted = FALSE
  /\ cardValue = [type |-> "number", num |-> 0, str |-> ""]
  /\ displayValue = <<0, 1>>
  /\ isVisible = FALSE
  /\ visibleTimer = FALSE
  /\ intervals = {}
  /\ effectInterval = <<>>
  /\ renders = 0

\* The map panel before any map data has arrived.
PanelIdle ==
  /\ mapNodes = <<>>
  /\ showOnlineOnly = FALSE
  /\ healthTierFilter = "all"
  /\ versionFilter = "all"
  /\ now = 10

\* The page without its map: no markers layer is mounted.
MapAbsent ==
  /\ mounted = FALSE
  /\ layerNodes = <<>>
  /\ enableClustering = TRUE
  /\ onNodeClick = 1
  /\ clusterGroupRef = <<>>
  /\ markersRef = <<>>
  /\ mapLayers = {}
  /\ effectRuns = 0
  /\ mapSize = [x |-> 1000, y |-> 500]
  /\ timers = {}
  /\ popup = <<>>
  /\ selectPending = FALSE

Init ==
  /\ MapAbsent
  /\ PanelIdle
  /\ ApiIdle
  /\ CardAbsent
  /\ pnodes \in NodeLists
  /\ search = <<>>
  /\ statusFilter = "all"
  /\ tierFilter = "all"
  /\ sortField = "healthScore"
  /\ sortDirection = "desc"
  /\ currentPage = 1
  /\ engine \in Engines

\* Column-header click without the page reset.
handleSortNoReset(field) ==
  /\ IF sortField = field
     THEN /\ sortDirection' = IF sortDirection = "asc" THEN "desc" ELSE "asc"
          /\ UNCHANGED sortField
     ELSE /\ sortField' = field
          /\ sortDirection' = "desc"
  /\ UNCHANGED <<outsideTable, pnodes, search, statusFilter, tierFilter, engine,
                 currentPage>>

\* Column-header click that always sets the direction to desc.
handleSortAlwaysDesc(field) ==
  /\ sortField' = field
  /\ sortDirection' = "desc"
  /\ currentPage' = 1
  /\ UNCHANGED <<outsideTable, pnodes, search, statusFilter, tierFilter, engine>>

\* Column-header click.
handleSort(field) ==
  /\ IF sortField = field
     THEN /\ sortDirection' = IF sortDirection = "asc" THEN "desc" ELSE "asc"
          /\ UNCHANGED sortField
     ELSE /\ sortField' = field
          /\ sortDirection' = "desc"
  /\ currentPage' = 1
  /\ UNCHANGED <<outsideTable, pnodes, search, statusFilter, tierFilter, engine>>

handleFilterChange == currentPage' = 1

\* onChange of the search input.
searchOnChange(value) ==
  /\ search' = value
  /\ handleFilterChange
  /\ UNCHANGED <<outsideTable, pnodes, statusFilter, tierFilter, sortField,
                 sortDirection, engine>>

handleStatusFilter(status) ==
  /\ statusFilter' = status
  /\ currentPage' = 1
  /\ UNCHANGED <<outsideTable, pnodes, search, tierFilter, sortField,
                 sortDirection, engine>>

handleTierFilter(tier) ==
  /\ tierFilter' = tier
  /\ currentPage' = 1
  /\ UNCHANGED <<outsideTable, pnodes, search, statusFilter, sortField,
                 sortDirection, engine>>

handleSortChange(field, direction) ==
  /\ sortField' = field
  /\ sortDirection' = direction
  /\ currentPage' = 1
  /\ UNCHANGED <<outsideTable, pnodes, search, statusFilter, tierFilter, engine>>

\* The items of the sort dropdown.
SortMenu ==
  {<<"storageUsed", "desc">>, <<"lastSeen", "desc">>, <<"status", "asc">>,
   <<"healthScore", "desc">>, <<"healthScore", "asc">>,
   <<"storageUtilization", "desc">>, <<"storageUtilization", "asc">>,
   <<"ramUsed", "desc">>, <<"ramUsed", "asc">>,
   <<"ramUtilization", "desc">>, <<"ramUtilization", "asc">>}

\* The pagination bar is rendered only when totalPages > 1.
paginationPrevious ==
  /\ currentPage > 1
  /\ totalPages > 1
  /\ currentPage' = currentPage - 1
  /\ UNCHANGED <<outsideTable, pnodes, search, statusFilter, tierFilter, sortField,
                 sortDirection, engine>>

\* A page link is rendered for the first, the last and the pages next to
\* the current one.
paginationLink(page) ==
  /\ totalPages > 1
  /\ page \in 1..totalPages
  /\ \/ page = 1
     \/ page = totalPages
     \/ (page >= currentPage - 1 /\ page <= currentPage + 1)
  /\ currentPage' = page
  /\ UNCHANGED <<outsideTable, pnodes, search, statusFilter, tierFilter, sortField,
                 sortDirection, engine>>

paginationNext ==
  /\ totalPages > 1
  /\ currentPage < totalPages
  /\ currentPage' = currentPage + 1
  /\ UNCHANGED <<outsideTable, pnodes, search, statusFilter, tierFilter, sortField,
                 sortDirection, engine>>

\* A data refresh: the parent passes a new pnodes list; the view state stays.
refresh(nodes) ==
  /\ pnodes' = nodes
  /\ UNCHANGED <<outsideTable, search, statusFilter, tierFilter, sortField,
                 sortDirection, currentPage, engine>>

Next ==
  \/ \E field \in SortFields : handleSort(field)
  \/ \E value \in SearchTexts : searchOnChange(value)
  \/ \E status \in StatusFilters : handleStatusFilter(status)
  \/ \E tier \in TierFilters : handleTierFilter(tier)
  \/ \E item \in SortMenu : handleSortChange(item[1], item[2])
  \/ paginationPrevious
  \/ \E page \in 1..totalPages : paginationLink(page)
  \/ paginationNext
  \/ \E nodes \in NodeLists : refresh(nodes)

Spec == Init /\ [][Next]_vars

(***************************************************************************)
(* The markers layer of the map (MarkersLayer)                             *)
(***************************************************************************)
\* Number of runs of the layer's effect that are followed.
MaxEffects == 3

\* Number of popup timers that can be pending at once.
MaxTimers == 1

MapNode(pubkey, lat, lng) == [pubkey |-> pubkey, lat |-> lat, lng |-> lng]

mapNode1 == MapNode("n1", 10, 20)

mapNode2 == MapNode("n2", 48, 2)

mapNode3 == MapNode("n3", 0 - 33, 151)

\* The lists PNodesMap can pass as the `nodes` prop: filteredNodes may be
\* empty, and the feed may hold the same node twice.
MapNodeLists ==
  {<<>>, <<mapNode2, mapNode3, mapNode1>>, <<mapNode1, mapNode1>>}

\* A Leaflet layer object. Its identity is the run of the effect that
\* created it and, for a marker, the index of its node in that run.
Layer(kind, run, index, pubkey, latLng, layers) ==
  [kind |-> kind, run |-> run, index |-> index, pubkey |-> pubkey,
   latLng |-> latLng, layers |-> layers]

\* L.marker([node.lat, node.lng], { icon }) for the k-th node of a run.
marker(run, k, node) ==
  Layer("marker", run, k, node.pubkey, <<node.lat, node.lng>>, <<>>)

\* nodes.forEach(node => ...): one marker per element of the list.
createMarkers(run, list) == [k \in 1..Len(list) |-> marker(run, k, list[k])]

\* L.markerClusterGroup(...) with the markers added by clusterGroup.addLayer.
markerClusterGroup(run, markers) ==
  Layer("cluster", run, 0, "", <<0, 0>>, markers)

\* map.removeLayer of the cluster group in the ref, if any, and of every
\* marker of markersRef.
removeLayers(layers, ref, markers) ==
  (layers \ (IF ref # <<>> THEN {ref[1]} ELSE {}))
    \ {markers[k] : k \in 1..Len(markers)}

\* "Clear existing markers" at the head of the effect.
clearExisting(layers, ref, markers) == removeLayers(layers, ref, markers)

\* A cleanup that removes nothing.
cleanupKeepsLayers(layers, ref, markers) == layers

\* The function the effect returns.
cleanup(layers, ref, markers) == removeLayers(layers, ref, markers)

\* The body of the effect, run on a map holding `layers` by a component
\* whose refs hold `ref` and `markers`.
effect(layers, ref, markers, list, clustering) ==
  LET run == effectRuns + 1
      cleared == clearExisting(layers, ref, markers)
      created == createMarkers(run, list)
      clusterGroup == markerClusterGroup(run, created)
  IN /\ effectRuns' = run
     /\ IF clustering
        THEN /\ mapLayers' = cleared \cup {clusterGroup}
             /\ clusterGroupRef' = <<clusterGroup>>
             /\ markersRef' = <<>>
        ELSE /\ mapLayers' = cleared \cup {created[k] : k \in 1..Len(created)}
             /\ clusterGroupRef' = <<>>
             /\ markersRef' = created

\* A dependency of the effect has changed: React runs the cleanup of the
\* previous run, then the effect.
rerunEffect(list, clustering) ==
  effect(cleanup(mapLayers, clusterGroupRef, markersRef), clusterGroupRef,
         markersRef, list, clustering)

\* The filter and legend regions and the three offsets of adjustPopupPosition.
popupMaxWidth == 300

\* The callback of adjustPopupPosition's setTimeout, with the legend test
\* made before the filter test.
adjustPopupPositionLegendFirst(markerPoint, size) ==
  LET filterArea == [x |-> size.x - 280, y |-> 0, width |-> 280, height |-> 350]
      legendArea == [x |-> 0, y |-> size.y - 250, width |-> 280, height |-> 250]
      isNearFilters ==
        markerPoint.x > filterArea.x /\ markerPoint.y < filterArea.height
      isNearLegend ==
        markerPoint.x < legendArea.width /\ markerPoint.y > legendArea.y
  IN IF isNearLegend THEN <<30, 0 - 10>>
     ELSE IF isNearFilters THEN <<0 - popupMaxWidth - 30, 0 - 10>>
     ELSE <<0, 0 - 10>>

\* The callback of adjustPopupPosition's setTimeout: the offset it sets.
adjustPopupPosition(markerPoint, size) ==
  LET filterArea == [x |-> size.x - 280, y |-> 0, width |-> 280, height |-> 350]
      legendArea == [x |-> 0, y |-> size.y - 250, width |-> 280, height |-> 250]
      isNearFilters ==
        markerPoint.x > filterArea.x /\ markerPoint.y < filterArea.height
      isNearLegend ==
        markerPoint.x < legendArea.width /\ markerPoint.y > legendArea.y
  IN IF isNearFilters THEN <<0 - popupMaxWidth - 30, 0 - 10>>
     ELSE IF isNearLegend THEN <<30, 0 - 10>>
     ELSE <<0, 0 - 10>>

\* Sizes of the map container: 500px high, as wide as the page.
MapSizes == {[x |-> 1000, y |-> 500], [x |-> 500, y |-> 500]}

\* Container points a marker can be at when its popup opens.
ScreenPoints ==
  {[x |-> 900, y |-> 100], [x |-> 100, y |-> 450], [x |-> 250, y |-> 300],
   [x |-> 400, y |-> 200]}

\* The table is not part of the map.
TableIdle ==
  /\ pnodes = <<>>
  /\ search = <<>>
  /\ statusFilter = "all"
  /\ tierFilter = "all"
  /\ sortField = "healthScore"
  /\ sortDirection = "desc"
  /\ currentPage = 1
  /\ engine = "binaryInsertion"

\* PNodesMap before its data has arrived: the layer is not mounted.
InitMap ==
  /\ TableIdle
  /\ PanelIdle
  /\ ApiIdle
  /\ CardAbsent
  /\ mounted = FALSE
  /\ layerNodes = <<>>
  /\ enableClustering = TRUE
  /\ onNodeClick = 1
  /\ clusterGroupRef = <<>>
  /\ markersRef = <<>>
  /\ mapLayers = {}
  /\ effectRuns = 0
  /\ mapSize \in MapSizes
  /\ timers = {}
  /\ popup = <<>>
  /\ selectPending = FALSE

\* MapContainer is rendered (the data has arrived): the layer mounts with
\* fresh refs and its effect runs.
mount(list) ==
  /\ ~mounted
  /\ effectRuns < MaxEffects
  /\ mounted' = TRUE
  /\ layerNodes' = list
  /\ effect(mapLayers, <<>>, <<>>, list, enableClustering)
  /\ UNCHANGED <<outsideMap, enableClustering, onNodeClick, mapSize, timers,
                 popup, selectPending>>

\* filteredNodes is recomputed: a new array, of the same or of other nodes.
nodesReplaced(list) ==
  /\ mounted
  /\ effectRuns < MaxEffects
  /\ layerNodes' = list
  /\ rerunEffect(list, enableClustering)
  /\ UNCHANGED <<outsideMap, mounted, enableClustering, onNodeClick, mapSize,
                 timers, popup, selectPending>>

\* The clustering switch of the filter panel.
setEnableClustering(checked) ==
  /\ checked # enableClustering
  /\ enableClustering' = checked
  /\ IF mounted
     THEN /\ effectRuns < MaxEffects
          /\ rerunEffect(layerNodes, checked)
     ELSE UNCHANGED <<clusterGroupRef, markersRef, mapLayers, effectRuns>>
  /\ UNCHANGED <<outsideMap, mounted, layerNodes, onNodeClick, mapSize, timers,
                 popup, selectPending>>

\* Index renders again for a reason of its own (a data refresh, the
\* auto-refresh switch): its inline onNodeClick is a new function.
onNodeClickChanged ==
  /\ mounted
  /\ selectPending = FALSE
  /\ effectRuns < MaxEffects
  /\ onNodeClick' = 3 - onNodeClick
  /\ rerunEffect(layerNodes, enableClustering)
  /\ UNCHANGED <<outsideMap, mounted, layerNodes, enableClustering, mapSize,
                 timers, popup, selectPending>>

\* Index renders with the selectedNode a marker click has set: its inline
\* onNodeClick is a new function, a dependency of the layer's effect.
selectedNodeRerender ==
  /\ selectPending
  /\ selectPending' = FALSE
  /\ onNodeClick' = 3 - onNodeClick
  /\ IF mounted
     THEN /\ effectRuns < MaxEffects
          /\ rerunEffect(layerNodes, enableClustering)
     ELSE UNCHANGED <<clusterGroupRef, markersRef, mapLayers, effectRuns>>
  /\ UNCHANGED <<outsideMap, mounted, layerNodes, enableClustering, mapSize,
                 timers, popup>>

\* MapContainer leaves the page (loading, or no map data): the cleanup of
\* the last run is called.
unmount ==
  /\ mounted
  /\ mounted' = FALSE
  /\ mapLayers' = cleanup(mapLayers, clusterGroupRef, markersRef)
  /\ UNCHANGED <<outsideMap, layerNodes, enableClustering, onNodeClick,
                 clusterGroupRef, markersRef, effectRuns, mapSize, timers,
                 popup, selectPending>>

\* The markers the map shows: directly, or inside a cluster group on it.
displayedMarkers ==
  {l \in mapLayers : l.kind = "marker"}
    \cup UNION {{g.layers[k] : k \in 1..Len(g.layers)} :
                 g \in {l \in mapLayers : l.kind = "cluster"}}

\* The 'popupopen' handler of a marker: adjustPopupPosition arms its 10 ms
\* timer, which holds on to the marker and its popup.
popupopen(clicked) == timers' = timers \cup {clicked}

\* A click on a marker: Leaflet opens the bound popup ('popupopen'), then
\* the 'click' handler calls onNodeClick, and Index calls setSelectedNode
\* when it finds the node in pnodes and it is not the selected one.
markerClick(clicked, selects) ==
  /\ clicked \in displayedMarkers
  /\ Cardinality(timers) < MaxTimers
  /\ popupopen(clicked)
  /\ selectPending' = (selects \/ selectPending)
  /\ UNCHANGED <<outsideMap, mounted, layerNodes, enableClustering,
                 onNodeClick, clusterGroupRef, markersRef, mapLayers,
                 effectRuns, mapSize, popup>>

\* The timer of a popup fires: the marker is at markerPoint of the container.
popupTimeout(armed, markerPoint) ==
  /\ armed \in timers
  /\ timers' = timers \ {armed}
  /\ popup' = <<[point |-> markerPoint, size |-> mapSize,
                 offset |-> adjustPopupPosition(markerPoint, mapSize)]>>
  /\ UNCHANGED <<outsideMap, mounted, layerNodes, enableClustering,
                 onNodeClick, clusterGroupRef, markersRef, mapLayers,
                 effectRuns, mapSize, selectPending>>

\* The page is resized.
resize(size) ==
  /\ size # mapSize
  /\ mapSize' = size
  /\ UNCHANGED <<outsideMap, mounted, layerNodes, enableClustering,
                 onNodeClick, clusterGroupRef, markersRef, mapLayers,
                 effectRuns, timers, popup, selectPending>>

NextMap ==
  \/ \E list \in MapNodeLists : mount(list)
  \/ \E list \in MapNodeLists : nodesReplaced(list)
  \/ \E checked \in BOOLEAN : setEnableClustering(checked)
  \/ onNodeClickChanged
  \/ selectedNodeRerender
  \/ unmount
  \/ \E clicked \in displayedMarkers, selects \in BOOLEAN :
       markerClick(clicked, selects)
  \/ \E armed \in timers, markerPoint \in ScreenPoints :
       popupTimeout(armed, markerPoint)
  \/ \E size \in MapSizes : resize(size)

SpecMap == InitMap /\ [][NextMap]_vars

(***************************************************************************)
(* The map panel (PNodesMap): filters and marker icons                     *)
(***************************************************************************)
\* Last minute of the clock that is followed.
MaxNow == 13

\* The fields of a MapNode the filters and the icon read. Times are in
\* minutes; lastSeen holds `new Date(lastSeen).getTime()`, NaN if unparsable.
PanelNode(pubkey, status, healthScore, storageUtilization, version, lastSeen) ==
  [pubkey |-> pubkey, status |-> status, healthScore |-> healthScore,
   storageUtilization |-> storageUtilization, version |-> version,
   lastSeen |-> lastSeen]

\* The map feeds the data hook can deliver.
MapFeeds ==
  LET p1 == PanelNode("p1", "online", 95, 50, "1.0", <<8>>)
      p2 == PanelNode("p2", "online", 87, 0, "1.0", <<0>>)
      p3 == PanelNode("p3", "online", 85, 100, "1.1", NaN)
      p4 == PanelNode("p4", "online", 84, 150, "1.1", <<11>>)
      p5 == PanelNode("p5", "online", 70, 25, "1.0", <<9>>)
      p6 == PanelNode("p6", "online", 60, 75, "1.1", <<5>>)
      p7 == PanelNode("p7", "online", 59, 10, "1.0", <<10>>)
      p8 == PanelNode("p8", "offline", 95, 60, "1.1", <<9>>)
      p9 == PanelNode("p9", "offline", 30, 5, "1.0", NaN)
  IN {<<>>,
      <<p1, p2, p3, p4, p8>>,
      <<p5, p6, p7, p9>>,
      <<p9, p7, p4, p2, p1, p6, p8, p3>>}

HealthTierFilters == {"all", "Excellent", "Good", "Poor"}

\* The callback of the health-tier filter.
healthTierMatches(n, tier) ==
  CASE tier = "Excellent" -> n.healthScore >= 90
    [] tier = "Good" -> n.healthScore >= 75 /\ n.healthScore < 90
    [] tier = "Poor" -> n.healthScore < 75
    [] OTHER -> TRUE

\* The useMemo body of filteredNodes.
filteredNodesOf(feed, onlineOnly, tier, version) ==
  LET isOnline(n) == n.status = "online"
      inTier(n) == healthTierMatches(n, tier)
      hasVersion(n) == n.version = version
      byStatus == IF onlineOnly THEN SelectSeq(feed, isOnline) ELSE feed
      byTier == IF tier # "all" THEN SelectSeq(byStatus, inTier) ELSE byStatus
  IN IF version # "all" THEN SelectSeq(byTier, hasVersion) ELSE byTier

\* The versions offered by the version filter.
versionsOf(feed) == {feed[k].version : k \in 1..Len(feed)}

\* 5 * 60 * 1000 ms.
fiveMinutes == 5

\* The marker size as the exact ratio <<n, d>>:
\* baseSize + (storageUtilization / 100) * 20.
markerSizeOf(node) == <<20 * 100 + node.storageUtilization * 20, 100>>

\* lastSeenDate.getTime() > fiveMinutesAgo; a comparison with NaN is false.
isRecentOf(node, clock) ==
  /\ node.status = "online"
  /\ ~isNaN(node.lastSeen)
  /\ node.lastSeen[1] > clock - fiveMinutes

\* createMarkerIcon with the excellent band starting at 90.
createMarkerIconFrom90(node, clock) ==
  [color |-> IF node.status = "offline" THEN "hsl(0,0%,50%)"
             ELSE IF node.healthScore >= 90 THEN "hsl(142,71%,45%)"
             ELSE IF node.healthScore >= 60 THEN "hsl(38,92%,50%)"
             ELSE "hsl(0,84%,60%)",
   markerSize |-> markerSizeOf(node),
   isRecent |-> isRecentOf(node, clock)]

\* createMarkerIcon with `>=` in the place of `>` in isRecent.
createMarkerIconRecentInclusive(node, clock) ==
  [color |-> IF node.status = "offline" THEN "hsl(0,0%,50%)"
             ELSE IF node.healthScore >= 85 THEN "hsl(142,71%,45%)"
             ELSE IF node.healthScore >= 60 THEN "hsl(38,92%,50%)"
             ELSE "hsl(0,84%,60%)",
   markerSize |-> markerSizeOf(node),
   isRecent |-> /\ node.status = "online"
                /\ ~isNaN(node.lastSeen)
                /\ node.lastSeen[1] >= clock - fiveMinutes]

\* createMarkerIcon of PNodesMap: colour, size and pulse of a marker built
\* when Date.now() is `clock`.
createMarkerIcon(node, clock) ==
  [color |-> IF node.status = "offline" THEN "hsl(0,0%,50%)"
             ELSE IF node.healthScore >= 85 THEN "hsl(142,71%,45%)"
             ELSE IF node.healthScore >= 60 THEN "hsl(38,92%,50%)"
             ELSE "hsl(0,84%,60%)",
   markerSize |-> markerSizeOf(node),
   isRecent |-> isRecentOf(node, clock)]

\* createMarkerIcon of MapMarker.
MapMarkerIcon(node, clock) ==
  [color |-> IF node.status = "offline" THEN "hsl(0,0%,50%)"
             ELSE IF node.healthScore >= 85 THEN "hsl(142,71%,45%)"
             ELSE IF node.healthScore >= 60 THEN "hsl(38,92%,50%)"
             ELSE "hsl(0,84%,60%)",
   markerSize |-> <<20 * 100 + node.storageUtilization * 20, 100>>,
   isRecent |-> /\ node.status = "online"
                /\ ~isNaN(node.lastSeen)
                /\ node.lastSeen[1] > clock - fiveMinutes]

\* The nodes the panel hands to the markers layer, and their icons.
filteredNodes ==
  filteredNodesOf(mapNodes, showOnlineOnly, healthTierFilter, versionFilter)

markerIcons ==
  [k \in 1..Len(filteredNodes) |-> createMarkerIcon(filteredNodes[k], now)]

\* The table and the markers layer are not part of the panel.
InitPanel ==
  /\ TableIdle
  /\ MapAbsent
  /\ ApiIdle
  /\ CardAbsent
  /\ mapNodes \in MapFeeds
  /\ showOnlineOnly = FALSE
  /\ healthTierFilter = "all"
  /\ versionFilter = "all"
  /\ now = 10

setShowOnlineOnly(checked) ==
  /\ showOnlineOnly' = checked
  /\ UNCHANGED <<outsidePanel, mapNodes, healthTierFilter, versionFilter, now>>

setHealthTierFilter(tier) ==
  /\ healthTierFilter' = tier
  /\ UNCHANGED <<outsidePanel, mapNodes, showOnlineOnly, versionFilter, now>>

\* The version filter offers 'all' and the versions of the feed.
setVersionFilter(version) ==
  /\ version \in {"all"} \cup versionsOf(mapNodes)
  /\ versionFilter' = version
  /\ UNCHANGED <<outsidePanel, mapNodes, showOnlineOnly, healthTierFilter,
                 now>>

\* The data hook delivers a new feed.
mapNodesRefresh(feed) ==
  /\ mapNodes' = feed
  /\ UNCHANGED <<outsidePanel, showOnlineOnly, healthTierFilter,
                 versionFilter, now>>

\* A minute passes.
tick ==
  /\ now < MaxNow
  /\ now' = now + 1
  /\ UNCHANGED <<outsidePanel, mapNodes, showOnlineOnly, healthTierFilter,
                 versionFilter>>

NextPanel ==
  \/ \E checked \in BOOLEAN : setShowOnlineOnly(checked)
  \/ \E tier \in HealthTierFilters : setHealthTierFilter(tier)
  \/ \E version \in {"all", "1.0", "1.1"} : setVersionFilter(version)
  \/ \E feed \in MapFeeds : mapNodesRefresh(feed)
  \/ tick

SpecPanel == InitPanel /\ [][NextPanel]_vars

(***************************************************************************)
(* ApiClient.request                                                       *)
(***************************************************************************)
\* The timeouts the client asks for: getNodeStats, the default, getMapNodes.
Timeouts == {15000, 30000, 60000}

\* The step of the clock, in ms.
TickMs == 15000

\* Responses of the server: status and statusText.
Responses ==
  {[status |-> 200, statusText |-> "OK"],
   [status |-> 204, statusText |-> "No Content"],
   [status |-> 404, statusText |-> "Not Found"],
   [status |-> 500, statusText |-> "Internal Server Error"]}

\* response.ok
ok(res) == res.status >= 200 /\ res.status <= 299

\* Errors fetch and response.json() reject with, other than the abort.
NetworkErrors ==
  {[name |-> "TypeError", message |-> <<"Failed to fetch">>],
   [name |-> "SyntaxError", message |-> <<"Unexpected token">>]}

AbortError == [name |-> "AbortError", message |-> <<"The operation was aborted">>]

\* Bodies response.json() resolves with.
Bodies == {"[]", "{}"}

resolved(data) == [kind |-> "resolved", data |-> data]

rejected(error) == [kind |-> "rejected", error |-> error]

\* The catch block: the timer is cleared, an AbortError becomes the timeout
\* error, every other error is thrown again.
catch(error) ==
  /\ timeoutId' = FALSE
  /\ outcome' =
       <<rejected(IF error.name = "AbortError"
                  THEN [name |-> "Error",
                        message |-> <<"Request timeout after ", timeoutMs, "ms">>]
                  ELSE error)>>
  /\ settled' = settled + 1
  /\ phase' = "settled"

\* The table, the map and the card are not part of the client.
InitApi ==
  /\ TableIdle
  /\ MapAbsent
  /\ PanelIdle
  /\ CardAbsent
  /\ ApiIdle

\* request(endpoint, ms) up to its `await fetch`: the timer is armed and the
\* fetch is in flight.
request(ms) ==
  /\ phase \in {"idle", "settled"}
  /\ phase' = "fetch"
  /\ timeoutMs' = ms
  /\ elapsed' = 0
  /\ timeoutId' = TRUE
  /\ aborted' = FALSE
  /\ response' = <<>>
  /\ outcome' = <<>>
  /\ settled' = 0
  /\ UNCHANGED outsideApi

\* Time passes while the timer is pending.
clockTick ==
  /\ timeoutId
  /\ elapsed < timeoutMs
  /\ elapsed' = elapsed + TickMs
  /\ UNCHANGED <<outsideApi, phase, timeoutMs, timeoutId, aborted, response,
                 outcome, settled>>

\* The timer fires: controller.abort(); a fetch in flight rejects with an
\* AbortError, which the catch block receives.
timerFires ==
  /\ timeoutId
  /\ elapsed >= timeoutMs
  /\ aborted' = TRUE
  /\ IF phase = "fetch"
     THEN catch(AbortError)
     ELSE /\ timeoutId' = FALSE
          /\ UNCHANGED <<phase, outcome, settled>>
  /\ UNCHANGED <<outsideApi, timeoutMs, elapsed, response>>

\* The response arrives: the timer is cleared; a response that is not ok is
\* thrown into the catch block, an ok one is handed to response.json().
fetchResolves(res) ==
  /\ phase = "fetch"
  /\ ~aborted
  /\ response' = <<res>>
  /\ IF ~ok(res)
     THEN catch([name |-> "Error",
                 message |-> <<"API request failed: ", res.status, " ",
                               res.statusText>>])
     ELSE /\ timeoutId' = FALSE
          /\ phase' = "json"
          /\ UNCHANGED <<outcome, settled>>
  /\ UNCHANGED <<outsideApi, timeoutMs, elapsed, aborted>>

\* The fetch fails for a reason of its own.
fetchRejects(error) ==
  /\ phase = "fetch"
  /\ catch(error)
  /\ UNCHANGED <<outsideApi, timeoutMs, elapsed, aborted, response>>

\* response.json() resolves: the promise returned by request adopts it.
jsonResolves(data) ==
  /\ phase = "json"
  /\ outcome' = <<resolved(data)>>
  /\ settled' = settled + 1
  /\ phase' = "settled"
  /\ UNCHANGED <<outsideApi, timeoutMs, elapsed, timeoutId, aborted, response>>

\* response.json() rejects, outside the try block: the error is passed on.
jsonRejects(error) ==
  /\ phase = "json"
  /\ outcome' = <<rejected(error)>>
  /\ settled' = settled + 1
  /\ phase' = "settled"
  /\ UNCHANGED <<outsideApi, timeoutMs, elapsed, timeoutId, aborted, response>>

NextApi ==
  \/ \E ms \in Timeouts : request(ms)
  \/ clockTick
  \/ timerFires
  \/ \E res \in Responses : fetchResolves(res)
  \/ \E error \in NetworkErrors : fetchRejects(error)
  \/ \E data \in Bodies : jsonResolves(data)
  \/ \E error \in NetworkErrors : jsonRejects(error)

\* The event loop runs a timer that is due; the network owes nothing.
SpecApi ==
  InitApi /\ [][NextApi]_vars /\ WF_vars(clockTick) /\ WF_vars(timerFires)

(***************************************************************************)
(* MetricCard: the count-up animation                                      *)
(***************************************************************************)
\* Runs of the animation effect that are followed.
MaxRenders == 4

steps == 60

\* The value prop: a number or a string.
numberValue(n) == [type |-> "number", num |-> n, str |-> ""]

stringValue(s) == [type |-> "string", num |-> 0, str |-> s]

CardValues ==
  {numberValue(0), numberValue(7), numberValue(120), numberValue(-60),
   stringValue("1.0.0")}

clearInterval(ivs, id) == {i \in ivs : i.id # id}

\* The animation effect without its cleanup.
animationCleanupNone(ivs) == ivs

\* The cleanup the last run of the animation effect returned, if any.
animationCleanup(ivs) ==
  IF effectInterval = <<>> THEN ivs ELSE clearInterval(ivs, effectInterval[1])

\* The animation effect runs again: the cleanup of its last run, then its
\* body with the values of this render. Numbers shown are ratios <<n, d>>.
animationEffect(visible, v) ==
  LET cleaned == animationCleanup(intervals)
      id == renders + 1
  IN /\ renders' = id
     /\ IF ~visible
        THEN /\ intervals' = cleaned
             /\ effectInterval' = <<>>
             /\ UNCHANGED displayValue
        ELSE IF v.type = "string"
        THEN /\ displayValue' = <<0, 1>>
             /\ intervals' = cleaned
             /\ effectInterval' = <<>>
        ELSE /\ intervals' = cleaned \cup {[id |-> id, value |-> v.num, step |-> 0]}
             /\ effectInterval' = <<id>>
             /\ UNCHANGED displayValue

\* Math.min(stepValue * step, value) with stepValue = value / steps.
current(v, step) ==
  IF v * step <= v * steps THEN <<v * step, steps>> ELSE <<v, 1>>

\* The table, the map and the client are not part of the card.
InitCard ==
  /\ TableIdle
  /\ MapAbsent
  /\ PanelIdle
  /\ ApiIdle
  /\ CardAbsent

\* The card mounts: both effects run, and the card is not yet visible.
cardMount(v) ==
  /\ ~cardMounted
  /\ renders < MaxRenders
  /\ cardMounted' = TRUE
  /\ cardValue' = v
  /\ displayValue' = <<0, 1>>
  /\ isVisible' = FALSE
  /\ visibleTimer' = TRUE
  /\ renders' = renders + 1
  /\ effectInterval' = <<>>
  /\ UNCHANGED <<outsideCard, intervals>>

\* The delay is over: setIsVisible(true); when that changes the state the
\* animation effect runs again.
visibleTimeout ==
  /\ visibleTimer
  /\ visibleTimer' = FALSE
  /\ isVisible' = TRUE
  /\ IF isVisible
     THEN UNCHANGED <<displayValue, intervals, effectInterval, renders>>
     ELSE renders < MaxRenders /\ animationEffect(TRUE, cardValue)
  /\ UNCHANGED <<outsideCard, cardMounted, cardValue>>

\* The delay prop changes: the pending timer is cleared and a new one set.
delayChanged ==
  /\ cardMounted
  /\ visibleTimer' = TRUE
  /\ UNCHANGED <<outsideCard, cardMounted, cardValue, displayValue, isVisible,
                 intervals, effectInterval, renders>>

\* The value prop changes.
valueChanged(v) ==
  /\ cardMounted
  /\ v # cardValue
  /\ renders < MaxRenders
  /\ cardValue' = v
  /\ animationEffect(isVisible, v)
  /\ UNCHANGED <<outsideCard, cardMounted, isVisible, visibleTimer>>

\* A tick of an interval, with the variables of its closure.
intervalTick(i) ==
  LET step == i.step + 1
  IN /\ i \in intervals
     /\ IF step >= steps
        THEN /\ intervals' = intervals \ {i}
             /\ displayValue' = <<i.value, 1>>
        ELSE /\ intervals' = (intervals \ {i}) \cup {[i EXCEPT !.step = step]}
             /\ displayValue' = current(i.value, step)
     /\ UNCHANGED <<outsideCard, cardMounted, cardValue, isVisible,
                    visibleTimer, effectInterval, renders>>

\* The card unmounts: the cleanups of both effects run.
cardUnmount ==
  /\ cardMounted
  /\ cardMounted' = FALSE
  /\ visibleTimer' = FALSE
  /\ intervals' = animationCleanup(intervals)
  /\ effectInterval' = <<>>
  /\ UNCHANGED <<outsideCard, cardValue, displayValue, isVisible, renders>>

NextCard ==
  \/ \E v \in CardValues : cardMount(v)
  \/ visibleTimeout
  \/ delayChanged
  \/ \E v \in CardValues : valueChanged(v)
  \/ \E i \in intervals : intervalTick(i)
  \/ cardUnmount

\* The event loop runs the ticks of an interval that is set.
SpecCard ==
  /\ InitCard
  /\ [][NextCard]_vars
  /\ WF_vars(\E i \in intervals : intervalTick(i))


(***************************************************************************)
(* Properties                                                              *)
(***************************************************************************)
Indices(list) == 1..Len(list)

UniqueIds(list) ==
  \A i, j \in Indices(list) : i # j => list[i].pubkey # list[j].pubkey

\* sub is obtained from full by deleting elements: greedy left-to-right match.
RECURSIVE MatchesFrom(_, _, _, _)
MatchesFrom(sub, full, i, j) ==
  IF i > Len(sub) THEN TRUE
  ELSE IF j > Len(full) THEN FALSE
  ELSE IF sub[i] = full[j] THEN MatchesFrom(sub, full, i + 1, j + 1)
  ELSE MatchesFrom(sub, full, i, j + 1)

IsSubsequence(sub, full) == MatchesFrom(sub, full, 1, 1)

\* Index of the first record of list with the given pubkey.
FirstWithId(list, pubkey) ==
  CHOOSE i \in Indices(list) :
    /\ list[i].pubkey = pubkey
    /\ \A j \in Indices(list) : list[j].pubkey = pubkey => i <= j

\* C1: the deduplication step returns a list without two records of the same
\* pubkey, which is a subsequence of the list it was given and no longer than
\* it; so the view, and each page of it, has unique ids.
C1_DedupeUnique ==
  LET input == sorted
      output == deduplicate(input)
  IN /\ UniqueIds(output)
     /\ IsSubsequence(output, input)
     /\ Len(output) <= Len(input)
     /\ UniqueIds(paginatedNodes)

\* C1 witness: the deduplication has dropped a record and kept several.
C1_Witness ==
  LET view == filteredAndSorted
  IN /\ Len(view) < Len(filtered)
     /\ Len(view) >= 2

\* C2: deduplication runs after sorting: of the records sharing a pubkey the
\* one kept is the first in the sorted list, and under a sort by healthScore
\* it is the one with the higher score (desc) or the lower score (asc).
C2_DedupeKeepsFirstSorted ==
  LET view == filteredAndSorted
      beforeSort == filtered
      afterSort == sorted
  IN /\ \A i \in Indices(view) :
          view[i] = afterSort[FirstWithId(afterSort, view[i].pubkey)]
     /\ sortField = "healthScore" =>
          \A i \in Indices(view), j \in Indices(beforeSort) :
            beforeSort[j].pubkey = view[i].pubkey =>
              IF sortDirection = "desc"
              THEN healthOrZero(view[i]) >= healthOrZero(beforeSort[j])
              ELSE healthOrZero(view[i]) <= healthOrZero(beforeSort[j])

\* C2 witness: sorted by healthScore descending, the record kept for a pubkey
\* is not the first record of that pubkey in the raw input but one of a
\* higher health score.
C2_Witness ==
  LET view == filteredAndSorted
  IN /\ sortField = "healthScore"
     /\ sortDirection = "desc"
     /\ \E i \in Indices(view) :
          LET firstRaw == pnodes[FirstWithId(pnodes, view[i].pubkey)]
          IN /\ view[i] # firstRaw
             /\ healthOrZero(view[i]) > healthOrZero(firstRaw)

\* Pages first..last of list, one after the other.
RECURSIVE ConcatPages(_, _, _)
ConcatPages(list, first, last) ==
  IF first > last
  THEN <<>>
  ELSE paginatedNodesOf(list, first) \o ConcatPages(list, first + 1, last)

\* C3: every page 1..totalPages holds at most 20 items, and the pages in
\* order make up exactly the filtered, sorted and deduplicated collection.
C3_PagesPartition ==
  LET view == filteredAndSorted
      pages == totalPagesOf(Len(view))
  IN /\ \A p \in 1..pages : Len(paginatedNodesOf(view, p)) <= 20
     /\ ConcatPages(view, 1, pages) = view

\* C3 witness: a collection of two pages, shown on its second, partial page.
C3_Witness ==
  LET view == filteredAndSorted
  IN /\ totalPagesOf(Len(view)) = 2
     /\ currentPage = 2
     /\ Len(paginatedNodesOf(view, currentPage)) \in 1..19

\* Index of record r in list.
IndexOf(list, r) == CHOOSE i \in Indices(list) : list[i] = r

\* The comparator of the current render says "equal" (0, or NaN taken as 0).
ComparesEqual(a, b, direction) ==
  sortCompare(a, b, sortField, direction, nodeRamData) = 0

\* C4: the sort is stable for every field and direction: two records whose
\* keys compare equal keep the relative order they had before the sort.
C4_SortStable ==
  LET before == filtered
      after == sorted
  IN \A i, j \in Indices(before) :
       (/\ i < j
        /\ before[i] # before[j]
        /\ ComparesEqual(before[i], before[j], sortDirection))
       => IndexOf(after, before[i]) < IndexOf(after, before[j])

Reverse(list) == [i \in Indices(list) |-> list[Len(list) + 1 - i]]

Range(list) == {list[i] : i \in Indices(list)}

\* C5: sorted desc is the exact reverse of sorted asc when no two keys compare
\* equal; in every case both hold the same records and the keys of the one
\* read backwards are the keys of the other.
C5_DescReversesAsc ==
  LET before == filtered
      asc == sortNodes(before, sortField, "asc", nodeRamData, engine)
      desc == sortNodes(before, sortField, "desc", nodeRamData, engine)
  IN /\ (\A i, j \in Indices(before) :
           i # j => ~ComparesEqual(before[i], before[j], "asc"))
        => desc = Reverse(asc)
     /\ Len(desc) = Len(asc)
     /\ Range(desc) = Range(asc)
     /\ \A k \in Indices(asc) : ComparesEqual(desc[k], Reverse(asc)[k], "asc")

\* What the search box asks for: the query trimmed, then lower-cased.
Query(text) == toLowerCase(trim(text))

\* The query occurs in the lower-cased pubkey, region, version or ip.
QueryOccursIn(node, query) ==
  \E field \in {<<node.pubkey>>, node.region, node.version, node.ip} :
    includes(toLowerCase(IF field = <<>> THEN <<>> ELSE field[1]), query)

\* C6: a record passes the search filter iff the trimmed query is empty or
\* the trimmed, lower-cased query occurs in its lower-cased pubkey, region,
\* version or ip; a whitespace-only query keeps the whole collection.
C6_SearchFilter ==
  LET passes(node) == trim(search) = <<>> \/ QueryOccursIn(node, Query(search))
      kept == searchStep(pnodes, search)
  IN /\ kept = SelectSeq(pnodes, passes)
     /\ (\A k \in Indices(search) : search[k] = " ") => kept = pnodes

\* C6 witness: a query that keeps some records and drops others, one of the
\* kept ones matching on its ip alone.
C6_Witness ==
  LET kept == searchStep(pnodes, search)
      query == Query(search)
  IN /\ query # <<>>
     /\ Len(kept) \in 1..(Len(pnodes) - 1)
     /\ \E i \in Indices(kept) :
          /\ includes(toLowerCase(orEmpty(kept[i].ip)), query)
          /\ ~includes(toLowerCase(kept[i].pubkey), query)
          /\ ~includes(toLowerCase(orEmpty(kept[i].region)), query)
          /\ ~includes(toLowerCase(orEmpty(kept[i].version)), query)

\* The three predicates of the filter, each a no-op at its 'all'/empty value.
PassesSearch(node) ==
  trim(search) = <<>> \/ searchMatches(node, trim(toLowerCase(search)))

PassesStatus(node) == statusFilter = "all" \/ node.status = statusFilter

PassesTier(node) == tierFilter = "all" \/ node.tier = <<tierFilter>>

PassesAll(node) == PassesSearch(node) /\ PassesStatus(node) /\ PassesTier(node)

\* C7: the filtered list is the intersection of the three predicates: the
\* filters give the same list in each of the six orders, and a filter left at
\* 'all' / an empty query removes nothing.
C7_FiltersIntersect ==
  LET s(list) == searchStep(list, search)
      u(list) == statusStep(list, statusFilter)
      t(list) == tierStep(list, tierFilter)
      result == filtered
  IN /\ result = SelectSeq(pnodes, PassesAll)
     /\ result = t(u(s(pnodes)))
     /\ result = u(t(s(pnodes)))
     /\ result = t(s(u(pnodes)))
     /\ result = s(t(u(pnodes)))
     /\ result = u(s(t(pnodes)))
     /\ result = s(u(t(pnodes)))
     /\ searchStep(pnodes, <<>>) = pnodes
     /\ statusStep(pnodes, "all") = pnodes
     /\ tierStep(pnodes, "all") = pnodes

\* C7 witness: all three filters are set and each of them alone drops a
\* record the other two keep.
C7_Witness ==
  /\ \E i \in Indices(pnodes) :
       ~PassesSearch(pnodes[i]) /\ PassesStatus(pnodes[i])
         /\ PassesTier(pnodes[i])
  /\ \E i \in Indices(pnodes) :
       PassesSearch(pnodes[i]) /\ ~PassesStatus(pnodes[i])
         /\ PassesTier(pnodes[i])
  /\ \E i \in Indices(pnodes) :
       PassesSearch(pnodes[i]) /\ PassesStatus(pnodes[i])
         /\ ~PassesTier(pnodes[i])

\* C8: filtering is idempotent: the filter applied to its own output, with
\* the same search, status and tier, returns that output.
C8_FilterIdempotent ==
  LET once == filtered
  IN filterNodes(once, search, statusFilter, tierFilter) = once

\* C8 witness: the filter has dropped records and kept others.
C8_Witness ==
  /\ Len(filtered) \in 1..(Len(pnodes) - 1)
  /\ statusFilter # "all"

\* C9: under a status filter other than 'all' exactly the records of that
\* status are kept, under a specific tier filter exactly the records of that
\* tier, and a record without a tier is kept under none of them.
C9_StatusTierExact ==
  LET hasStatus(node) == node.status = statusFilter
      hasTier(node) == node.tier # <<>> /\ node.tier[1] = tierFilter
  IN /\ statusFilter # "all" =>
          statusStep(pnodes, statusFilter) = SelectSeq(pnodes, hasStatus)
     /\ tierFilter # "all" =>
          /\ tierStep(pnodes, tierFilter) = SelectSeq(pnodes, hasTier)
          /\ \A i \in Indices(filtered) : filtered[i].tier # <<>>
          /\ \A tier \in TierFilters \ {"all"} :
               \A i \in Indices(tierStep(pnodes, tier)) :
                 tierStep(pnodes, tier)[i].tier # <<>>

\* C9 witness: a specific tier filter over a list that holds a record of
\* that tier and a record without a tier.
C9_Witness ==
  /\ tierFilter # "all"
  /\ statusFilter # "all"
  /\ \E i \in Indices(pnodes) : pnodes[i].tier = <<>>
  /\ \E i \in Indices(pnodes) : pnodes[i].tier = <<tierFilter>>
  /\ \E i \in Indices(pnodes) : pnodes[i].status # statusFilter

\* C10: every step that changes the search text, the status filter, the tier
\* filter, the sort field or the sort direction leaves currentPage at 1.
C10_ControlsResetPage ==
  [][(\/ search' # search
      \/ statusFilter' # statusFilter
      \/ tierFilter' # tierFilter
      \/ sortField' # sortField
      \/ sortDirection' # sortDirection) => currentPage' = 1]_vars

\* C10 witness: a list of several pages, sorted through a column header (the
\* sort menu has no entry for region), stands at page 1.
C10_Witness ==
  /\ sortField = "region"
  /\ sortDirection = "asc"
  /\ currentPage = 1
  /\ totalPages > 1

Max(a, b) == IF a >= b THEN a ELSE b

\* C11: in every reachable state currentPage lies in 1..max(1, totalPages),
\* so a non-empty collection is never shown as an empty page.
C11_PageInRange ==
  LET view == filteredAndSorted
  IN /\ currentPage \in 1..Max(1, totalPagesOf(Len(view)))
     /\ view # <<>> => paginatedNodesOf(view, currentPage) # <<>>

\* Number of pages past the last one that are looked at.
PagesBeyond == 3

\* C12: for a currentPage greater than totalPages, totalPages = 0 included,
\* the page slice is the empty list, while the collection still drives the
\* empty-state message and totalPages.
C12_OutOfRangePageEmpty ==
  LET view == filteredAndSorted
      pages == totalPagesOf(Len(view))
  IN /\ \A p \in (pages + 1)..(pages + PagesBeyond) :
          paginatedNodesOf(view, p) = <<>>
     /\ currentPage > pages =>
          /\ paginatedNodesOf(view, currentPage) = <<>>
          /\ emptyStateShown <=> view = <<>>
          /\ pages = totalPages
          /\ pages * itemsPerPage >= Len(view)

\* C12 witness: a data refresh has left the table on page 2 of a non-empty
\* collection of a single page.
C12_Witness ==
  LET view == filteredAndSorted
  IN /\ view # <<>>
     /\ totalPagesOf(Len(view)) = 1
     /\ currentPage = 2

\* Largest collection size for which totalPages is compared with the ceiling.
MaxCount == 65

\* ceil(n / 20): the least k with k * 20 >= n.
CeilDiv20(n) == CHOOSE k \in 0..n : k * 20 >= n /\ (k - 1) * 20 < n

\* C13: totalPages is ceil(count / 20) for the count of the filtered, sorted
\* and deduplicated collection, 0 for count 0; 25 records of unique ids give
\* 2 pages, of 20 and of 5 items.
C13_TotalPagesCeil ==
  LET view == filteredAndSorted
      kept == filtered
      count == Len(view)
  IN /\ totalPages = CeilDiv20(count)
     /\ count = 0 => totalPages = 0
     /\ \A n \in 0..MaxCount : totalPagesOf(n) = CeilDiv20(n)
     /\ (Len(kept) = 25 /\ UniqueIds(kept)) =>
          /\ totalPages = 2
          /\ Len(paginatedNodesOf(view, 1)) = 20
          /\ Len(paginatedNodesOf(view, 2)) = 5

\* C13 witness: 25 records of unique ids, unfiltered, shown on page 2.
C13_Witness ==
  /\ Len(pnodes) = 25
  /\ UniqueIds(pnodes)
  /\ Len(filtered) = 25
  /\ currentPage = 2
  /\ Len(paginatedNodes) = 5

\* C14: the rank shown for the row at 0-based index i of page p is
\* (p - 1) * 20 + i + 1, the row's 1-based position in the whole collection;
\* over all pages the ranks are exactly 1..count.
C14_GlobalRank ==
  LET view == filteredAndSorted
      pages == totalPagesOf(Len(view))
  IN /\ \A p \in 1..pages :
          LET page == paginatedNodesOf(view, p)
          IN \A i \in 0..(Len(page) - 1) :
               /\ globalRank(view, page[i + 1]) = (p - 1) * 20 + i + 1
               /\ view[globalRank(view, page[i + 1])] = page[i + 1]
     /\ {globalRank(view, view[k]) : k \in Indices(view)} = 1..Len(view)

\* C14 witness: the table shows page 2, whose first row has rank 21.
C14_Witness ==
  LET view == filteredAndSorted
      page == paginatedNodesOf(view, currentPage)
  IN /\ currentPage = 2
     /\ page # <<>>
     /\ globalRank(view, page[1]) = 21

\* Order of two exact ratios of positive denominator.
RatioLeq(a, b) == a[1] * b[2] <= b[1] * a[2]

\* A key that is the number 0: not NaN, not Infinity.
IsZeroKey(key) == key[1] = 0 /\ key[2] > 0

\* The keys of the sort-key table for the two storage fields.
UsedOverTotal(node) ==
  IF node.storageTotal = 0
  THEN <<0, 1>>
  ELSE <<node.storageUsed, node.storageTotal>>

ExplicitOrComputedUtilization(node) ==
  IF node.storageUtilization # <<>>
  THEN <<node.storageUtilization[1], 1>>
  ELSE <<UsedOverTotal(node)[1] * 100, UsedOverTotal(node)[2]>>

\* list is in the order of key, ascending or descending.
InKeyOrder(list, key(_), direction) ==
  \A i \in 1..(Len(list) - 1) :
    IF direction = "asc"
    THEN RatioLeq(key(list[i]), key(list[i + 1]))
    ELSE RatioLeq(key(list[i + 1]), key(list[i]))

\* C15 as stated: under a sort by storageUsed the key is the ratio
\* storageUsed/storageTotal; a record with storageTotal = 0 has key 0 under
\* storageUsed and under storageUtilization.
C15_ZeroTotalKeyZero ==
  LET after == sorted
  IN /\ sortField = "storageUsed" =>
          InKeyOrder(after, UsedOverTotal, sortDirection)
     /\ \A i \in Indices(pnodes) :
          pnodes[i].storageTotal = 0 =>
            /\ IsZeroKey(storageRatio(pnodes[i]))
            /\ IsZeroKey(storageUtilizationKey(pnodes[i]))

\* C15 amended: under a sort by storageUsed the key is the ratio
\* storageUsed/storageTotal, 0 for storageTotal = 0; under a sort by
\* storageUtilization the key is the record's storageUtilization field when
\* it has one, whatever its storageTotal, and otherwise the ratio times 100,
\* 0 for storageTotal = 0. No key is NaN or Infinity.
C15_StorageKeys ==
  LET after == sorted
  IN /\ sortField = "storageUsed" =>
          InKeyOrder(after, UsedOverTotal, sortDirection)
     /\ sortField = "storageUtilization" =>
          InKeyOrder(after, ExplicitOrComputedUtilization, sortDirection)
     /\ \A i \in Indices(pnodes) :
          LET node == pnodes[i]
          IN /\ storageRatio(node)[2] > 0
             /\ storageUtilizationKey(node)[2] > 0
             /\ node.storageTotal = 0 =>
                  /\ IsZeroKey(storageRatio(node))
                  /\ node.storageUtilization = <<>> =>
                       IsZeroKey(storageUtilizationKey(node))
                  /\ node.storageUtilization # <<>> =>
                       storageUtilizationKey(node)
                         = <<node.storageUtilization[1], 1>>

\* C15 witness: sorted by storageUsed ascending, a record with storageTotal = 0
\* and more bytes used stands before a record with fewer bytes and a positive
\* ratio.
C15_Witness ==
  LET after == sorted
  IN /\ sortField = "storageUsed"
     /\ sortDirection = "asc"
     /\ \E i, j \in Indices(after) :
          /\ i < j
          /\ after[i].storageTotal = 0
          /\ after[i].storageUsed > after[j].storageUsed
          /\ after[j].storageTotal > 0
          /\ after[j].storageUsed > 0

\* The RAM keys of the sort-key table, from the record's own fields.
OwnRamUsed(node) == IF hasRam(node) THEN node.ramUsed[1] ELSE 0

OwnRamUtilization(node) ==
  IF hasRam(node) /\ node.ramTotal[1] > 0
  THEN <<node.ramUsed[1] * 100, node.ramTotal[1]>>
  ELSE <<0, 1>>

\* C16: for every record of the input, records sharing a pubkey included, the
\* ramUsed key is the record's own ramUsed (0 without RAM data) and the
\* ramUtilization key is the record's own ramUsed/ramTotal x 100 (0 without
\* RAM data or with ramTotal = 0).
C16_RamKeysOwn ==
  LET ramData == nodeRamData
  IN \A i \in Indices(pnodes) :
       LET node == pnodes[i]
       IN /\ ramUsedKey(node, ramData) = OwnRamUsed(node)
          /\ RatioLeq(ramUtilizationKey(node, ramData), OwnRamUtilization(node))
          /\ RatioLeq(OwnRamUtilization(node), ramUtilizationKey(node, ramData))

\* The two lists hold the same records, each the same number of times.
IsPermutation(s, t) ==
  /\ Len(s) = Len(t)
  /\ \A r \in Range(s) \cup Range(t) :
       Cardinality({i \in Indices(s) : s[i] = r})
         = Cardinality({i \in Indices(t) : t[i] = r})

\* C17: under a sort by lastSeen every comparison gives a value (a number or
\* NaN, never an exception), a comparison with an unparsable lastSeen on
\* either side counts as "equal" for the sort, and the sorted list is a
\* permutation of the list that was sorted.
C17_LastSeenNeutral ==
  LET before == filtered
      after == sorted
      ramData == nodeRamData
  IN sortField = "lastSeen" =>
       /\ \A i, j \in Indices(before) :
            LET a == before[i]
                b == before[j]
            IN /\ Len(comparator(a, b, sortField, sortDirection, ramData)) <= 1
               /\ (isNaN(a.lastSeen) \/ isNaN(b.lastSeen)) =>
                    sortCompare(a, b, sortField, sortDirection, ramData) = 0
       /\ IsPermutation(after, before)

\* C17 witness: a sort by lastSeen has reordered a list that holds a record
\* with an unparsable lastSeen and two records with different parsable ones.
C17_Witness ==
  LET before == filtered
      after == sorted
  IN /\ sortField = "lastSeen"
     /\ after # before
     /\ \E i, j, k \in Indices(before) :
          /\ isNaN(before[i].lastSeen)
          /\ ~isNaN(before[j].lastSeen)
          /\ ~isNaN(before[k].lastSeen)
          /\ before[j].lastSeen # before[k].lastSeen

\* C18: a row shows "N/A" for its health score only when the healthScore is
\* absent, and a healthScore of exactly 0 is shown as "0.0".
C18_HealthDisplay ==
  LET rows == paginatedNodes
  IN \A i \in Indices(rows) :
       /\ healthScoreCell(rows[i]) = <<"N", "/", "A">>
            <=> rows[i].healthScore = <<>>
       /\ rows[i].healthScore = <<0>> =>
            healthScoreCell(rows[i]) = <<"0", ".", "0">>

\* The markers that stand directly on the map, and the cluster groups on it.
MarkersOnMap == {l \in mapLayers : l.kind = "marker"}

GroupsOnMap == {l \in mapLayers : l.kind = "cluster"}

\* The markers are one per element of list, in order, all made by `run`.
OnePerNode(markers, list, run) ==
  /\ Len(markers) = Len(list)
  /\ \A k \in Indices(list) :
       /\ markers[k].kind = "marker"
       /\ markers[k].pubkey = list[k].pubkey
       /\ markers[k].latLng = <<list[k].lat, list[k].lng>>
       /\ markers[k].run = run
  /\ \A j, k \in Indices(markers) : j # k => markers[j] # markers[k]

\* C19: while the layer is mounted the map holds exactly one marker per node
\* of the latest list, all made by the latest run of the effect: inside the
\* single cluster group on the map when clustering is on, directly on the
\* map when it is off, never both; after unmount the map holds none.
C19_MarkersReplaced ==
  /\ mounted /\ enableClustering =>
       /\ MarkersOnMap = {}
       /\ Cardinality(GroupsOnMap) = 1
       /\ \A g \in GroupsOnMap :
            /\ g.run = effectRuns
            /\ clusterGroupRef = <<g>>
            /\ OnePerNode(g.layers, layerNodes, effectRuns)
  /\ mounted /\ ~enableClustering =>
       /\ GroupsOnMap = {}
       /\ MarkersOnMap = Range(markersRef)
       /\ Cardinality(MarkersOnMap) = Len(layerNodes)
       /\ OnePerNode(markersRef, layerNodes, effectRuns)
  /\ ~mounted => mapLayers = {}

\* C19 witness: after several runs of the effect, the last one with
\* clustering off, the map shows the markers of a list of three nodes.
C19_Witness ==
  /\ mounted
  /\ ~enableClustering
  /\ effectRuns >= 3
  /\ onNodeClick = 2
  /\ Len(layerNodes) = 3
  /\ Cardinality(MarkersOnMap) = 3

\* Viewport sizes and points over which the offset rule is compared.
Viewports ==
  {[x |-> 300, y |-> 300], [x |-> 500, y |-> 500], [x |-> 1000, y |-> 600]}

PointsOf(size) ==
  {[x |-> px, y |-> py] :
     px \in {0, 279, 280, size.x - 280, size.x - 279, size.x},
     py \in {0, 349, 350, size.y - 250, size.y - 249, size.y}}

InFilterRegion(point, size) == point.x > size.x - 280 /\ point.y < 350

InLegendRegion(point, size) == point.x < 280 /\ point.y > size.y - 250

\* The offset the placement policy asks for.
PolicyOffset(point, size) ==
  CASE InFilterRegion(point, size) -> <<0 - 300 - 30, 0 - 10>>
    [] ~InFilterRegion(point, size) /\ InLegendRegion(point, size) ->
         <<30, 0 - 10>>
    [] OTHER -> <<0, 0 - 10>>

\* C20: for every marker point and viewport size the popup offset is the
\* left offset (-(max width) - 30, -10) inside the filter-panel region
\* (x > width - 280 and y < 350), else the right offset (30, -10) inside the
\* legend region (x < 280 and y > height - 250), else (0, -10); where both
\* regions hold the point the filter-panel rule wins.
C20_PopupOffset ==
  /\ popup # <<>> =>
       popup[1].offset = PolicyOffset(popup[1].point, popup[1].size)
  /\ \A size \in Viewports :
       \A point \in PointsOf(size) :
         /\ adjustPopupPosition(point, size) = PolicyOffset(point, size)
         /\ adjustPopupPosition(point, size)
              \in {<<0 - 330, 0 - 10>>, <<30, 0 - 10>>, <<0, 0 - 10>>}

\* C20 witness: a popup has been placed for a point that lies in both
\* regions, and it went to the left.
C20_Witness ==
  /\ popup # <<>>
  /\ InFilterRegion(popup[1].point, popup[1].size)
  /\ InLegendRegion(popup[1].point, popup[1].size)
  /\ popup[1].offset = <<0 - 330, 0 - 10>>

Sign(n) == IF n < 0 THEN -1 ELSE IF n > 0 THEN 1 ELSE 0

\* C26: for the sort field in use the comparator is a consistent ordering
\* of the records: cmp(a, b) and cmp(b, a) have opposite signs, cmp is
\* transitive, and "compares equal" is transitive.
C26_ComparatorConsistent ==
  LET ramData == nodeRamData
      cmp(a, b) == Sign(sortCompare(a, b, sortField, sortDirection, ramData))
      records == Range(pnodes)
  IN /\ \A a, b \in records : cmp(a, b) = 0 - cmp(b, a)
     /\ \A a, b, c \in records :
          /\ (cmp(a, b) < 0 /\ cmp(b, c) < 0) => cmp(a, c) < 0
          /\ (cmp(a, b) = 0 /\ cmp(b, c) = 0) => cmp(a, c) = 0

\* C28: a click on the header of the active sort field toggles the direction
\* and keeps the field, so a second click restores the direction; a click on
\* the header of another field makes it the sort field with direction desc.
C28_HeaderClick ==
  [][\A field \in SortFields :
       handleSort(field) =>
         /\ sortField = field =>
              /\ sortField' = field
              /\ sortDirection' = (IF sortDirection = "asc" THEN "desc"
                                                            ELSE "asc")
              /\ sortDirection' # sortDirection
              /\ sortDirection' \in SortDirections
         /\ sortField # field =>
              /\ sortField' = field
              /\ sortDirection' = "desc"]_vars

\* C28 witness: sorted by pubkey ascending, which only two clicks on the
\* pubkey header reach (the sort menu has no entry for pubkey).
C28_Witness ==
  /\ sortField = "pubkey"
  /\ sortDirection = "asc"

\* C25: the deferred popup adjustment never runs against a marker that has
\* left the map: when a timer fires its marker is still shown, and the
\* rebuild of the layer that a click causes through onNodeClick finds no
\* popup timer still pending.
C25_TimerBeforeRebuild ==
  [][/\ \A armed \in timers :
          armed \notin timers' => armed \in displayedMarkers
     /\ (selectPending /\ ~selectPending') => timers = {}]_vars

\* The colour bands of the placement policy.
BandColour(node) ==
  CASE node.status = "offline" -> "hsl(0,0%,50%)"
    [] node.status # "offline" /\ node.healthScore >= 85 -> "hsl(142,71%,45%)"
    [] node.status # "offline" /\ node.healthScore >= 60
         /\ node.healthScore < 85 -> "hsl(38,92%,50%)"
    [] OTHER -> "hsl(0,84%,60%)"

\* C21: the marker colour depends on status and healthScore only and is the
\* same in both icon builders: gray when offline, else the excellent colour
\* from 85, the good colour from 60 to below 85, the poor colour otherwise.
C21_ColourBand ==
  /\ \A k \in Indices(mapNodes) :
       /\ createMarkerIcon(mapNodes[k], now).color = BandColour(mapNodes[k])
       /\ MapMarkerIcon(mapNodes[k], now).color = BandColour(mapNodes[k])
  /\ \A k \in Indices(filteredNodes) :
       markerIcons[k].color = BandColour(filteredNodes[k])
  /\ \A j, k \in Indices(mapNodes) :
       (/\ mapNodes[j].status = mapNodes[k].status
        /\ mapNodes[j].healthScore = mapNodes[k].healthScore) =>
         \A clock \in 10..MaxNow :
           createMarkerIcon(mapNodes[j], now).color
             = createMarkerIcon(mapNodes[k], clock).color

\* C21 witness: the markers shown are of an offline node of high health, of
\* online nodes at 87, at 84 and at 59.
C21_Witness ==
  LET shown == filteredNodes
  IN /\ \E k \in Indices(shown) :
          shown[k].status = "offline" /\ shown[k].healthScore >= 85
     /\ \E k \in Indices(shown) :
          shown[k].status = "online" /\ shown[k].healthScore = 87
     /\ \E k \in Indices(shown) :
          shown[k].status = "online" /\ shown[k].healthScore = 84
     /\ \E k \in Indices(mapNodes) :
          mapNodes[k].status = "online" /\ mapNodes[k].healthScore = 59

\* C22: the marker size is 20 + (storageUtilization / 100) * 20 pixels and
\* lies within [20, 40] for every map node.
C22_MarkerSizeRange ==
  \A k \in Indices(mapNodes) :
    LET size == createMarkerIcon(mapNodes[k], now).markerSize
    IN /\ size[1] * 100 = (2000 + mapNodes[k].storageUtilization * 20) * size[2]
       /\ size = MapMarkerIcon(mapNodes[k], now).markerSize
       /\ 20 * size[2] <= size[1]
       /\ size[1] <= 40 * size[2]

\* C23: a marker pulses iff its node is online and its lastSeen is less than
\* 5 minutes before the time the icon is built at; an offline node and a
\* node with an unparsable lastSeen never pulse.
C23_RecentFlag ==
  \A k \in Indices(mapNodes) :
    LET node == mapNodes[k]
        recent == createMarkerIcon(node, now).isRecent
    IN /\ recent <=> (/\ node.status = "online"
                       /\ node.lastSeen # NaN
                       /\ now - node.lastSeen[1] < 5)
       /\ recent = MapMarkerIcon(node, now).isRecent
       /\ node.status = "offline" => ~recent
       /\ node.lastSeen = NaN => ~recent
       /\ (node.status = "online" /\ node.lastSeen = <<now - 2>>) => recent
       /\ (node.status = "online" /\ node.lastSeen = <<now - 10>>) => ~recent

\* C23 witness: the feed holds online nodes last seen 2, exactly 5 and 10
\* minutes ago, an offline node seen 1 minute ago and an online node with an
\* unparsable lastSeen.
C23_Witness ==
  /\ \E k \in Indices(mapNodes) :
       mapNodes[k].status = "online" /\ mapNodes[k].lastSeen = <<now - 2>>
  /\ \E k \in Indices(mapNodes) :
       mapNodes[k].status = "online" /\ mapNodes[k].lastSeen = <<now - 5>>
  /\ \E k \in Indices(mapNodes) :
       mapNodes[k].status = "online" /\ mapNodes[k].lastSeen = <<now - 10>>
  /\ \E k \in Indices(mapNodes) :
       mapNodes[k].status = "offline" /\ mapNodes[k].lastSeen = <<now - 1>>
  /\ \E k \in Indices(mapNodes) :
       mapNodes[k].status = "online" /\ mapNodes[k].lastSeen = NaN

\* C27: for every online node the health-tier filter and the colour band
\* agree: it passes 'Excellent' iff its marker has the excellent colour,
\* 'Good' iff the good colour, 'Poor' iff the poor colour.
C27_FilterMatchesColour ==
  \A k \in Indices(mapNodes) :
    LET node == mapNodes[k]
        colour == createMarkerIcon(node, now).color
    IN node.status = "online" =>
         /\ healthTierMatches(node, "Excellent") <=> colour = "hsl(142,71%,45%)"
         /\ healthTierMatches(node, "Good") <=> colour = "hsl(38,92%,50%)"
         /\ healthTierMatches(node, "Poor") <=> colour = "hsl(0,84%,60%)"

\* What a settled request may have settled with.
RequestOutcomes ==
  {resolved(data) : data \in Bodies}
    \cup {rejected(error) : error \in NetworkErrors}
    \cup {rejected([name |-> "Error",
                    message |-> <<"API request failed: ", r.status, " ",
                                  r.statusText>>]) :
            r \in {x \in Responses : ~ok(x)}}
    \cup {rejected([name |-> "Error",
                    message |-> <<"Request timeout after ", timeoutMs, "ms">>])}

\* A settled request has one of the four outcomes, has settled once, and its
\* timer is cleared; the abort fires only on a fetch in flight.
RequestSettledOnce ==
  /\ settled <= 1
  /\ phase = "settled" =>
       /\ settled = 1
       /\ Len(outcome) = 1
       /\ outcome[1] \in RequestOutcomes
       /\ outcome[1].kind = "resolved" => response # <<>> /\ ok(response[1])
       /\ (response # <<>> /\ ~ok(response[1])) =>
            outcome[1] = rejected([name |-> "Error",
                                   message |-> <<"API request failed: ",
                                                 response[1].status, " ",
                                                 response[1].statusText>>])
       /\ ~timeoutId
  /\ phase # "settled" => outcome = <<>> /\ settled = 0
  /\ phase = "json" => ~timeoutId /\ ~aborted
  /\ aborted =>
       /\ phase = "settled"
       /\ outcome[1].error.message = <<"Request timeout after ", timeoutMs, "ms">>

\* A fetch in flight ends: by a response, by an error or by the timer.
FetchEnds == (phase = "fetch") ~> (phase # "fetch")

\* C29: every request settles, with exactly one of the four outcomes, and
\* its timer is cleared when it has settled.
C29_RequestSettles ==
  /\ []RequestSettledOnce
  /\ (phase \in {"fetch", "json"}) ~> (phase = "settled")

\* At most one interval, that of the last effect run, set while the card is
\* mounted, visible and shows a number, and cleared by its 60th tick.
OneAnimation ==
  /\ Cardinality(intervals) <= 1
  /\ ~cardMounted => intervals = {}
  /\ \A i \in intervals :
       /\ i.step < steps
       /\ effectInterval = <<i.id>>
       /\ isVisible
       /\ cardValue = numberValue(i.value)

\* C30: the count-up animation of a numeric value ends: the 60th tick sets
\* displayValue to value and clears the interval; a change of value and the
\* unmount clear the running interval first, so at most one interval is set
\* at any time and none after the unmount.
C30_AnimationTerminates ==
  /\ []OneAnimation
  /\ [][\A i \in intervals :
          intervalTick(i) =>
            IF i.step = steps - 1
            THEN /\ displayValue' = <<cardValue.num, 1>>
                 /\ intervals' = {}
            ELSE /\ displayValue' = current(cardValue.num, i.step + 1)
                 /\ intervals' # {}]_vars
  /\ [][(cardMounted /\ ~cardMounted') => intervals' = {}]_vars
  /\ (intervals # {}) ~> (intervals = {})

\* C30 witness: after a change of value the animation has run its 60 ticks
\* and the card shows the value.
C30_Witness ==
  /\ cardMounted
  /\ isVisible
  /\ renders >= 3
  /\ cardValue = numberValue(7)
  /\ displayValue = <<7, 1>>
  /\ intervals = {}

====
